---- MODULE Spec2Model ----
(***************************************************************************)
(* Model of the websocket fan-out layer of the video-party room service    *)
(* (package room): Hub.getRoom, Room.Run and its handlers, Client.close,   *)
(* Client.receiveHandler, Client.sendHandler and VideoController.          *)
(*                                                                         *)
(* One goroutine is one process of the model: a connection handler         *)
(* (VideoController) per client, an inbound loop and an outbound loop per  *)
(* admitted client, an event loop and a hub watcher per room.  A step of   *)
(* the model is one atomic operation of the code: a channel operation, a   *)
(* critical section of a mutex, or a whole handler of the event loop.      *)
(*                                                                         *)
(* A Go panic (send on a closed channel, close of a closed channel) ends   *)
(* the process: every action requires panic = NoPanic.                     *)
(***************************************************************************)
EXTENDS Naturals, Sequences, FiniteSets

\* ---------------------------------------------------------------- bounds
\* Connections the model opens (client c is the c-th connection request).
NumClients == 2
\* Room instances the Hub may create.
MaxRooms == 2
\* Frames the inbound loops forward in total.
MaxFrames == 4
\* Capacity of Client.send.  The source makes it 10 (part_001:326); the
\* model scales it down so that a saturated queue is within reach.
SendCap == 1
\* Capacity of Room.message (10 in the source, part_001:158), scaled down
\* (two, so that the channel can hold requests in an order).
MessageCap == 2
\* Capacity of Room.unregister (10 in the source, part_001:157), scaled down.
UnregisterCap == 1
\* Transport failures the peers and the network cause (a read or a write
\* on a connection this side has closed always fails and is not counted).
MaxFaults == 2

Clients == 1..NumClients
Rooms == 1..MaxRooms
Nil == 0
Keys == {"abc"}

NoPanic == "none"
SendOnClosed == "send on closed channel"
CloseOfClosed == "close of closed channel"

\* ------------------------------------------------------------- protocol
CommandPlay == "play"
CommandPause == "pause"
CommandSeek == "seek"
CommandSync == "sync"
CommandError == "error"
CommandVideoChange == "change-video"

\* time.Now() as the inbound loop stamps it, against a timestamp the peer
\* wrote into its frame.
ServerTime == "server"
PeerTime == "peer"

\* Frames a peer may send: wellFormed is whether json.Unmarshal accepts the
\* frame; Time is in tenths of a second (425 is 42.5).
Frames ==
    { [wellFormed |-> TRUE, Type |-> CommandSeek, Time |-> 425, Timestamp |-> PeerTime],
      [wellFormed |-> TRUE, Type |-> CommandError, Time |-> 0, Timestamp |-> PeerTime],
      [wellFormed |-> TRUE, Type |-> "stop", Time |-> 0, Timestamp |-> PeerTime],
      [wellFormed |-> FALSE, Type |-> "", Time |-> 0, Timestamp |-> PeerTime] }

\* Every frame a peer can send, up to what the inbound loop looks at: a
\* well-formed frame of each declared command type and of a type that is
\* none of them, and a frame that is not JSON.  (Frames, of which the
\* model's peers send, holds one frame for each way the loop goes on.)
AllFrames ==
    { [wellFormed |-> TRUE, Type |-> t, Time |-> 425, Timestamp |-> PeerTime] :
        t \in {CommandPlay, CommandPause, CommandSeek, CommandSync, CommandError,
                CommandVideoChange, "stop"} }
    \cup { [wellFormed |-> FALSE, Type |-> "", Time |-> 0, Timestamp |-> PeerTime] }

\* The switch of receiveHandler: the kinds it lets through.
ValidCommand(type) ==
    type \in {CommandPlay, CommandPause, CommandSeek, CommandSync, CommandVideoChange}

\* msg after json.Unmarshal, msg.From = c and msg.Timestamp = time.Now().
Stamp(c, frame) ==
    [Type |-> frame.Type, From |-> c, Time |-> frame.Time, Timestamp |-> ServerTime]

\* One more Conn.Close() call on a connection that has had n.
ConnClose(n) == IF n = 0 THEN 1 ELSE 2

VARIABLES
    hub,        \* Hub.Rooms: key -> room, Nil when the key has no entry
    nRooms,     \* rooms created so far (room r is the r-th NewRoom())
    rkey,       \* the key the watcher of room r captured
    clients,    \* Room.clients
    unregister, \* Room.unregister (buffered channel)
    message,    \* Room.message (buffered channel)
    cancelled,  \* Room.ctx is done
    cleaned,    \* Room.cleaned
    cleanups,   \* how often the body of Room.cleanup has run for the room
                \* (0, 1, or 2 for more than once)
    loop,       \* the goroutine of Room.Run: "none", "running", "exited"
    watcher,    \* the goroutine getRoom starts: "none", "waiting", "done"
    hpc,        \* VideoController for client c: "idle", "slow", "register",
                \* "done", "rejected"
    hkey,       \* the key of the request
    upgrade,    \* upgrader.Upgrade of the request: "none" (not attempted),
                \* "failed" or "ok"
    room,       \* Client.Room (Nil before getRoom returned)
    how,        \* while the handler holds a room it has not registered with:
                \* how getRoom returned it, "fast" (the read-locked lookup),
                \* "recheck" (the double check) or "created"; "" otherwise
    chan,       \* Client.send and Client.Conn: [send, sendClosed, connClosed,
                \* connCloses, dropped], connCloses counting the Conn.Close()
                \* calls (0, 1, or 2 for more than one) and dropped recording,
                \* while the client is in the client set, that sendMessage
                \* found the channel full
    rpc,        \* receiveHandler: "none", "read", "submit", "unreg", "closing",
                \* "done"
    pending,    \* the message receiveHandler is sending to Room.message
    spc,        \* sendHandler: "none", "loop", "closing", "done"
    nFrames,    \* frames forwarded so far
    nFaults,    \* transport failures caused from outside so far
    panic       \* NoPanic, or the runtime panic that ended the process

hubVars == <<hub, nRooms, rkey, watcher>>
roomVars == <<clients, unregister, message, cancelled, cleaned, cleanups, loop>>
handlerVars == <<hpc, hkey, upgrade, room, how>>
clientVars == <<chan, rpc, pending, spc, nFrames, nFaults>>
vars == <<hubVars, roomVars, handlerVars, clientVars, panic>>

NoMessage == [Type |-> "", From |-> Nil, Time |-> 0, Timestamp |-> ""]

\* &Client{Conn: conn, Room: room, send: make(chan *Message, 10)}
NewClient ==
    [send |-> <<>>, sendClosed |-> FALSE, connClosed |-> FALSE, connCloses |-> 0,
     dropped |-> FALSE]

\* hub = Hub{Rooms: make(map[string]*Room)}; no room, no connection yet.
Init ==
    /\ hub = [k \in Keys |-> Nil]
    /\ nRooms = 0
    /\ rkey = [r \in Rooms |-> ""]
    /\ clients = [r \in Rooms |-> {}]
    /\ unregister = [r \in Rooms |-> <<>>]
    /\ message = [r \in Rooms |-> <<>>]
    /\ cancelled = [r \in Rooms |-> FALSE]
    /\ cleaned = [r \in Rooms |-> FALSE]
    /\ cleanups = [r \in Rooms |-> 0]
    /\ loop = [r \in Rooms |-> "none"]
    /\ watcher = [r \in Rooms |-> "none"]
    /\ hpc = [c \in Clients |-> "idle"]
    /\ hkey = [c \in Clients |-> ""]
    /\ upgrade = [c \in Clients |-> "none"]
    /\ room = [c \in Clients |-> Nil]
    /\ how = [c \in Clients |-> ""]
    /\ chan = [c \in Clients |-> NewClient]
    /\ rpc = [c \in Clients |-> "none"]
    /\ pending = [c \in Clients |-> NoMessage]
    /\ spc = [c \in Clients |-> "none"]
    /\ nFrames = 0
    /\ nFaults = 0
    /\ panic = NoPanic

\* ---------------------------------------------------------- Client.close
\* select { case <-c.send: default: close(c.send) }; c.Conn.Close()
\* The receive takes a buffered message when there is one (also from a
\* closed channel), succeeds on a closed empty channel, and only an open
\* empty channel reaches the default branch.
close(ch) ==
    [send |-> IF Len(ch.send) > 0 THEN Tail(ch.send) ELSE ch.send,
     sendClosed |-> IF Len(ch.send) = 0 THEN TRUE ELSE ch.sendClosed,
     connClosed |-> TRUE,
     connCloses |-> ConnClose(ch.connCloses),
     dropped |-> ch.dropped]

\* ------------------------------------------------------ Room.sendMessage
\* select { case client.send <- message: default: client.close() }
\* on an open channel.
Offer(ch, msg) ==
    IF Len(ch.send) < SendCap
    THEN [ch EXCEPT !.send = Append(@, msg)]
    ELSE [close(ch) EXCEPT !.dropped = TRUE]

\* sendMessage without "if client == message.From { continue }".
TargetsWithOrigin(members, msg) == members

\* The clients the range loop offers the message to.
Targets(members, msg) == members \ {msg.From}

\* The loop of sendMessage over the targets it visits.
sendMessage(ch, visited, msg) ==
    [c \in Clients |-> IF c \in visited THEN Offer(ch[c], msg) ELSE ch[c]]

\* ---------------------------------------------------------- Room.cleanup
\* close(client.send); client.Conn.Close() for the clients visited.
cleanup(ch, visited) ==
    [c \in Clients |->
        IF c \in visited
        THEN [ch[c] EXCEPT !.sendClosed = TRUE, !.connClosed = TRUE,
                           !.connCloses = ConnClose(@), !.dropped = FALSE]
        ELSE ch[c]]

\* ----------------------------------------------------------- Hub.getRoom
\* getRoom without the double check: the write-locked path always creates.
MustCreateUnchecked(k) == TRUE

\* A double check that also replaces an entry whose room is cancelled.
MustCreateIfCancelled(k) == hub[k] = Nil \/ cancelled[hub[k]]

\* The double check under h.mx.Lock(): is a room to be created for key k.
MustCreate(k) == hub[k] = Nil

\* registerClient that replaces the client set instead of adding to it.
registerClientAlone(members, c) == {c}

\* Room.registerClient: r.clients[client] = true
registerClient(members, c) == members \cup {c}

\* Room.ClientCount(): len(r.clients) under the read lock.
ClientCount(r) == Cardinality(clients[r])

\* ------------------------------------------------------- VideoController
\* VideoController that goes on after a failed upgrade.
RejectedKeyOnly(k, upgraded) == k = ""

\* The request is answered with http.Error before getRoom is called: the
\* key parameter is missing or the upgrade fails.
Rejected(k, upgraded) == k = "" \/ ~upgraded

\* The request of client c with key k: the key check, the upgrade, and the
\* read-locked lookup of getRoom (which returns nil for the empty key, and
\* the handler then answers "Invalid room").  Requests are numbered in
\* arrival order.
Connect(c, k, upgraded) ==
    /\ panic = NoPanic
    /\ hpc[c] = "idle"
    /\ c > 1 => hpc[c - 1] # "idle"
    /\ hkey' = [hkey EXCEPT ![c] = k]
    /\ upgrade' = [upgrade EXCEPT ![c] =
            IF k = "" THEN "none" ELSE IF upgraded THEN "ok" ELSE "failed"]
    /\ IF Rejected(k, upgraded) \/ k = ""
       THEN /\ hpc' = [hpc EXCEPT ![c] = "rejected"]
            /\ UNCHANGED <<room, how>>
       ELSE IF hub[k] # Nil
            THEN /\ room' = [room EXCEPT ![c] = hub[k]]
                 /\ how' = [how EXCEPT ![c] = "fast"]
                 /\ hpc' = [hpc EXCEPT ![c] = "register"]
            ELSE /\ hpc' = [hpc EXCEPT ![c] = "slow"]
                 /\ UNCHANGED <<room, how>>
    /\ UNCHANGED <<hubVars, roomVars, clientVars, panic>>

\* getRoom from h.mx.Lock() on: the double check, NewRoom, room.Run() and
\* the watcher goroutine.
GetRoomSlow(c) ==
    /\ panic = NoPanic
    /\ hpc[c] = "slow"
    /\ IF MustCreate(hkey[c])
       THEN /\ nRooms < MaxRooms
            /\ nRooms' = nRooms + 1
            /\ hub' = [hub EXCEPT ![hkey[c]] = nRooms + 1]
            /\ rkey' = [rkey EXCEPT ![nRooms + 1] = hkey[c]]
            /\ loop' = [loop EXCEPT ![nRooms + 1] = "running"]
            /\ watcher' = [watcher EXCEPT ![nRooms + 1] = "waiting"]
            /\ room' = [room EXCEPT ![c] = nRooms + 1]
            /\ how' = [how EXCEPT ![c] = "created"]
       ELSE /\ room' = [room EXCEPT ![c] = hub[hkey[c]]]
            /\ how' = [how EXCEPT ![c] = "recheck"]
            /\ UNCHANGED <<hub, nRooms, rkey, loop, watcher>>
    /\ hpc' = [hpc EXCEPT ![c] = "register"]
    /\ UNCHANGED <<clients, unregister, message, cancelled, cleaned, cleanups,
                   hkey, upgrade, clientVars, panic>>

\* The watcher of room r: <-room.ctx.Done(); delete(h.Rooms, key).
WatcherDelete(r) ==
    /\ panic = NoPanic
    /\ watcher[r] = "waiting"
    /\ cancelled[r]
    /\ hub' = [hub EXCEPT ![rkey[r]] = Nil]
    /\ watcher' = [watcher EXCEPT ![r] = "done"]
    /\ UNCHANGED <<nRooms, rkey, roomVars, handlerVars, clientVars, panic>>

\* -------------------------------------------------------------- Room.Run
\* A receive that takes the newest element of the channel.
receiveNewest(q) == [value |-> q[Len(q)], rest |-> SubSeq(q, 1, Len(q) - 1)]

\* <-r.unregister, <-r.message on a channel that holds something: the
\* element received (the oldest) and what stays in the channel.
receive(q) == [value |-> Head(q), rest |-> Tail(q)]

\* case client := <-r.register: r.registerClient(client), with the send
\* room.register <- client of the handler (the channel is unbuffered).
RunRegister(r, c) ==
    /\ panic = NoPanic
    /\ loop[r] = "running"
    /\ hpc[c] = "register"
    /\ room[c] = r
    /\ clients' = [clients EXCEPT ![r] = registerClient(@, c)]
    /\ rpc' = [rpc EXCEPT ![c] = "read"]
    /\ spc' = [spc EXCEPT ![c] = "loop"]
    /\ hpc' = [hpc EXCEPT ![c] = "done"]
    /\ how' = [how EXCEPT ![c] = ""]
    /\ UNCHANGED <<hubVars, unregister, message, cancelled, cleaned, cleanups,
                   loop, hkey, upgrade, room, chan, pending, nFrames, nFaults,
                   panic>>

\* case client := <-r.unregister: r.unregisterClient(client)
RunUnregister(r) ==
    /\ panic = NoPanic
    /\ loop[r] = "running"
    /\ Len(unregister[r]) > 0
    /\ LET c == receive(unregister[r]).value IN
        /\ unregister' = [unregister EXCEPT ![r] = receive(@).rest]
        /\ IF c \in clients[r]
           THEN /\ clients' = [clients EXCEPT ![r] = @ \ {c}]
                /\ chan' = [chan EXCEPT ![c] = [close(@) EXCEPT !.dropped = FALSE]]
                /\ cancelled' = [cancelled EXCEPT ![r] = @ \/ clients[r] = {c}]
           ELSE UNCHANGED <<clients, chan, cancelled>>
    /\ UNCHANGED <<hubVars, message, cleaned, cleanups, loop, handlerVars, rpc,
                   pending, spc, nFrames, nFaults, panic>>

\* case message := <-r.message: r.sendMessage(message).  The range loop
\* visits the clients in an order the runtime picks; a target whose channel
\* is closed panics the process, after the loop has served any of the
\* other targets.
RunMessage(r) ==
    /\ panic = NoPanic
    /\ loop[r] = "running"
    /\ Len(message[r]) > 0
    /\ LET msg == receive(message[r]).value
           targets == Targets(clients[r], msg)
           closedTargets == {c \in targets : chan[c].sendClosed}
       IN
        /\ message' = [message EXCEPT ![r] = receive(@).rest]
        /\ IF closedTargets = {}
           THEN /\ chan' = sendMessage(chan, targets, msg)
                /\ UNCHANGED panic
           ELSE /\ \E visited \in SUBSET (targets \ closedTargets) :
                        chan' = sendMessage(chan, visited, msg)
                /\ panic' = SendOnClosed
    /\ UNCHANGED <<hubVars, clients, unregister, cancelled, cleaned, cleanups,
                   loop, handlerVars, rpc, pending, spc, nFrames, nFaults>>

\* One more run of the body of cleanup for a room that has had n.
Again(n) == IF n = 0 THEN 1 ELSE 2

\* Room.Run that does not return after cleanup, with a cleanup that does
\* not test Room.cleaned.
RunDoneAgain(r) ==
    /\ panic = NoPanic
    /\ loop[r] = "running"
    /\ cancelled[r]
    /\ cleaned' = [cleaned EXCEPT ![r] = TRUE]
    /\ cleanups' = [cleanups EXCEPT ![r] = Again(@)]
    /\ chan' = cleanup(chan, {c \in clients[r] : ~chan[c].sendClosed})
    /\ clients' = [clients EXCEPT ![r] = {}]
    /\ UNCHANGED <<hubVars, unregister, message, cancelled, loop, handlerVars,
                   rpc, pending, spc, nFrames, nFaults, panic>>

\* case <-r.ctx.Done(): r.cleanup(); return.  close(client.send) on a
\* channel that is closed already panics the process.
RunDone(r) ==
    /\ panic = NoPanic
    /\ loop[r] = "running"
    /\ cancelled[r]
    /\ IF cleaned[r]
       THEN /\ UNCHANGED <<cleaned, cleanups, chan, clients, panic>>
            /\ loop' = [loop EXCEPT ![r] = "exited"]
       ELSE LET closedMembers == {c \in clients[r] : chan[c].sendClosed} IN
            /\ cleaned' = [cleaned EXCEPT ![r] = TRUE]
            /\ cleanups' = [cleanups EXCEPT ![r] = Again(@)]
            /\ IF closedMembers = {}
               THEN /\ chan' = cleanup(chan, clients[r])
                    /\ clients' = [clients EXCEPT ![r] = {}]
                    /\ loop' = [loop EXCEPT ![r] = "exited"]
                    /\ UNCHANGED panic
               ELSE /\ \E visited \in SUBSET (clients[r] \ closedMembers) :
                            chan' = cleanup(chan, visited)
                    /\ panic' = CloseOfClosed
                    /\ UNCHANGED <<clients, loop>>
    /\ UNCHANGED <<hubVars, unregister, message, cancelled, handlerVars, rpc,
                   pending, spc, nFrames, nFaults>>

\* ------------------------------------------------- Client.receiveHandler
\* c.Conn.ReadMessage() returns a frame; a frame json.Unmarshal rejects or
\* whose type the switch rejects is dropped (continue), any other is
\* stamped and is then to be sent to c.Room.message.
RecvFrame(c, frame) ==
    /\ panic = NoPanic
    /\ rpc[c] = "read"
    /\ ~chan[c].connClosed
    /\ IF frame.wellFormed /\ ValidCommand(frame.Type)
       THEN /\ nFrames < MaxFrames
            /\ nFrames' = nFrames + 1
            /\ pending' = [pending EXCEPT ![c] = Stamp(c, frame)]
            /\ rpc' = [rpc EXCEPT ![c] = "submit"]
       ELSE UNCHANGED <<nFrames, pending, rpc>>
    /\ UNCHANGED <<hubVars, roomVars, handlerVars, chan, spc, nFaults, panic>>

\* c.Room.message <- msg (a blocking send on a buffered channel)
RecvSubmit(c) ==
    /\ panic = NoPanic
    /\ rpc[c] = "submit"
    /\ Len(message[room[c]]) < MessageCap
    /\ message' = [message EXCEPT ![room[c]] = Append(@, pending[c])]
    /\ pending' = [pending EXCEPT ![c] = NoMessage]
    /\ rpc' = [rpc EXCEPT ![c] = "read"]
    /\ UNCHANGED <<hubVars, clients, unregister, cancelled, cleaned, cleanups,
                   loop, handlerVars, chan, spc, nFrames, nFaults, panic>>

\* A transport operation of client c fails: always on a connection this
\* side has closed, otherwise when the peer or the network fails it.
CanFail(c) == chan[c].connClosed \/ nFaults < MaxFaults
Fail(c) == nFaults' = IF chan[c].connClosed THEN nFaults ELSE nFaults + 1

\* c.Conn.ReadMessage() returns an error (the peer went away, the read
\* deadline passed, or the connection was closed on this side): return, and
\* the deferred c.Room.unregister <- c, a blocking send on a buffered
\* channel, which waits in "unreg" while the channel is full.
RecvError(c) ==
    /\ panic = NoPanic
    /\ rpc[c] = "read"
    /\ CanFail(c)
    /\ Fail(c)
    /\ IF Len(unregister[room[c]]) < UnregisterCap
       THEN /\ unregister' = [unregister EXCEPT ![room[c]] = Append(@, c)]
            /\ rpc' = [rpc EXCEPT ![c] = "closing"]
       ELSE /\ rpc' = [rpc EXCEPT ![c] = "unreg"]
            /\ UNCHANGED unregister
    /\ UNCHANGED <<hubVars, clients, message, cancelled, cleaned, cleanups,
                   loop, handlerVars, chan, pending, spc, nFrames, panic>>

\* The deferred c.Room.unregister <- c completes once the channel has room.
RecvUnregister(c) ==
    /\ panic = NoPanic
    /\ rpc[c] = "unreg"
    /\ Len(unregister[room[c]]) < UnregisterCap
    /\ unregister' = [unregister EXCEPT ![room[c]] = Append(@, c)]
    /\ rpc' = [rpc EXCEPT ![c] = "closing"]
    /\ UNCHANGED <<hubVars, clients, message, cancelled, cleaned, cleanups,
                   loop, handlerVars, chan, pending, spc, nFrames, nFaults, panic>>

\* The deferred c.close() of receiveHandler
RecvClose(c) ==
    /\ panic = NoPanic
    /\ rpc[c] = "closing"
    /\ chan' = [chan EXCEPT ![c] = close(@)]
    /\ rpc' = [rpc EXCEPT ![c] = "done"]
    /\ UNCHANGED <<hubVars, roomVars, handlerVars, pending, spc, nFrames,
                   nFaults, panic>>

\* ---------------------------------------------------- Client.sendHandler
\* case message, ok := <-c.send with a message, then WriteMessage: written
\* (only on an open connection) or failed, which ends the loop.
SendWrite(c, written) ==
    /\ panic = NoPanic
    /\ spc[c] = "loop"
    /\ Len(chan[c].send) > 0
    /\ IF written
       THEN ~chan[c].connClosed /\ UNCHANGED nFaults
       ELSE CanFail(c) /\ Fail(c)
    /\ chan' = [chan EXCEPT ![c].send = Tail(@)]
    /\ spc' = [spc EXCEPT ![c] = IF written THEN "loop" ELSE "closing"]
    /\ UNCHANGED <<hubVars, roomVars, handlerVars, rpc, pending, nFrames, panic>>

\* case message, ok := <-c.send with ok false (the channel is closed and
\* drained): return, and the deferred c.close().
SendClosed(c) ==
    /\ panic = NoPanic
    /\ spc[c] = "loop"
    /\ Len(chan[c].send) = 0
    /\ chan[c].sendClosed
    /\ chan' = [chan EXCEPT ![c] = close(@)]
    /\ spc' = [spc EXCEPT ![c] = "done"]
    /\ UNCHANGED <<hubVars, roomVars, handlerVars, rpc, pending, nFrames,
                   nFaults, panic>>

\* case <-ticker.C: the ping cannot be written: return, and the deferred
\* c.close().  (A ping that is written changes nothing.)
SendPingFail(c) ==
    /\ panic = NoPanic
    /\ spc[c] = "loop"
    /\ CanFail(c)
    /\ Fail(c)
    /\ chan' = [chan EXCEPT ![c] = close(@)]
    /\ spc' = [spc EXCEPT ![c] = "done"]
    /\ UNCHANGED <<hubVars, roomVars, handlerVars, rpc, pending, nFrames, panic>>

\* The deferred c.close() of sendHandler after a failed write
SendClose(c) ==
    /\ panic = NoPanic
    /\ spc[c] = "closing"
    /\ chan' = [chan EXCEPT ![c] = close(@)]
    /\ spc' = [spc EXCEPT ![c] = "done"]
    /\ UNCHANGED <<hubVars, roomVars, handlerVars, rpc, pending, nFrames,
                   nFaults, panic>>

\* ------------------------------------------------------------ the system
Next ==
    \/ \E c \in Clients, k \in Keys \cup {""}, u \in BOOLEAN : Connect(c, k, u)
    \/ \E c \in Clients : GetRoomSlow(c)
    \/ \E r \in Rooms : WatcherDelete(r)
    \/ \E r \in Rooms, c \in Clients : RunRegister(r, c)
    \/ \E r \in Rooms : RunUnregister(r)
    \/ \E r \in Rooms : RunMessage(r)
    \/ \E r \in Rooms : RunDone(r)
    \/ \E c \in Clients, f \in Frames : RecvFrame(c, f)
    \/ \E c \in Clients : RecvSubmit(c)
    \/ \E c \in Clients : RecvError(c)
    \/ \E c \in Clients : RecvUnregister(c)
    \/ \E c \in Clients : RecvClose(c)
    \/ \E c \in Clients, w \in BOOLEAN : SendWrite(c, w)
    \/ \E c \in Clients : SendClosed(c)
    \/ \E c \in Clients : SendPingFail(c)
    \/ \E c \in Clients : SendClose(c)

Spec == Init /\ [][Next]_vars

\* The system while no frame is forwarded: the Hub, admission, eviction
\* and teardown.
NextHub ==
    \/ \E c \in Clients, k \in Keys \cup {""}, u \in BOOLEAN : Connect(c, k, u)
    \/ \E c \in Clients : GetRoomSlow(c)
    \/ \E r \in Rooms : WatcherDelete(r)
    \/ \E r \in Rooms, c \in Clients : RunRegister(r, c)
    \/ \E r \in Rooms : RunUnregister(r)
    \/ \E r \in Rooms : RunDone(r)
    \/ \E c \in Clients : RecvError(c)
    \/ \E c \in Clients : RecvUnregister(c)
    \/ \E c \in Clients : RecvClose(c)
    \/ \E c \in Clients : SendClosed(c)
    \/ \E c \in Clients : SendPingFail(c)

SpecHub == Init /\ [][NextHub]_vars

\* What the scheduler guarantees.  The select of Room.Run picks among its
\* ready cases at random, so a case that stays ready is taken; a goroutine
\* that can run does; a goroutine blocked in a channel send is served in
\* turn when the channel gets room; a read or a write on a connection
\* this side has closed returns its error.  Nothing obliges a peer to
\* connect, to send a frame or to fail.
Fairness ==
    /\ \A r \in Rooms :
        /\ WF_vars(RunUnregister(r))
        /\ WF_vars(RunMessage(r))
        /\ WF_vars(RunDone(r))
        /\ WF_vars(WatcherDelete(r))
        /\ \A c \in Clients : WF_vars(RunRegister(r, c))
    /\ \A c \in Clients :
        /\ WF_vars(GetRoomSlow(c))
        /\ SF_vars(RecvSubmit(c))
        /\ SF_vars(RecvUnregister(c))
        /\ WF_vars(RecvClose(c))
        /\ WF_vars(chan[c].connClosed /\ RecvError(c))
        /\ WF_vars(\E w \in BOOLEAN : SendWrite(c, w))
        /\ WF_vars(SendClosed(c))
        /\ WF_vars(chan[c].connClosed /\ SendPingFail(c))
        /\ WF_vars(SendClose(c))

FairSpec == Spec /\ Fairness

\* The system while neither a peer nor the network fails a connection: a
\* read or a write fails only on a connection this side has closed.
NoFault == nFaults' = nFaults

NextCalm ==
    \/ \E c \in Clients, k \in Keys \cup {""}, u \in BOOLEAN : Connect(c, k, u)
    \/ \E c \in Clients : GetRoomSlow(c)
    \/ \E r \in Rooms : WatcherDelete(r)
    \/ \E r \in Rooms, c \in Clients : RunRegister(r, c)
    \/ \E r \in Rooms : RunUnregister(r)
    \/ \E r \in Rooms : RunMessage(r)
    \/ \E r \in Rooms : RunDone(r)
    \/ \E c \in Clients, f \in Frames : RecvFrame(c, f)
    \/ \E c \in Clients : RecvSubmit(c)
    \/ \E c \in Clients : RecvError(c) /\ NoFault
    \/ \E c \in Clients : RecvUnregister(c)
    \/ \E c \in Clients : RecvClose(c)
    \/ \E c \in Clients, w \in BOOLEAN : SendWrite(c, w) /\ NoFault
    \/ \E c \in Clients : SendClosed(c)
    \/ \E c \in Clients : SendPingFail(c) /\ NoFault
    \/ \E c \in Clients : SendClose(c)

SpecCalm == Init /\ [][NextCalm]_vars

\* ---------------------------------------------------------------- claims
\* The handlers that asked for key k and were not turned away.
Callers(k) == {c \in Clients : hkey[c] = k /\ hpc[c] \notin {"idle", "rejected"}}

\* The rooms created for key k so far.
RoomsOf(k) == {r \in 1..nRooms : rkey[r] = k}

\* C1: no client's outbound queue ever holds a message that client itself
\* submitted: a broadcast is never enqueued on its origin.
C1_NoSelfDelivery ==
    \A c \in Clients : \A i \in 1..Len(chan[c].send) : chan[c].send[i].From # c

\* A broadcast of member a has been processed: it sits in the queue of
\* member b of the same room and a's own queue is empty.
C1_Witness ==
    \E a, b \in Clients :
        /\ a # b
        /\ room[a] # Nil
        /\ room[a] = room[b]
        /\ {a, b} \subseteq clients[room[a]]
        /\ Len(chan[b].send) > 0
        /\ chan[b].send[1].From = a
        /\ chan[a].send = <<>>

\* C3: once every handler that asked for a key has been admitted and no
\* connection of theirs has been closed, ClientCount() of the room the Hub
\* holds for the key is their number, its members are exactly they, and
\* that room is the only one ever created for the key.
C3_AdmissionCount ==
    \A k \in Keys :
        (/\ Callers(k) # {}
         /\ \A c \in Callers(k) : hpc[c] = "done" /\ ~chan[c].connClosed)
        => /\ hub[k] # Nil
           /\ ClientCount(hub[k]) = Cardinality(Callers(k))
           /\ clients[hub[k]] = Callers(k)
           /\ RoomsOf(k) = {hub[k]}

\* Every client of the model asked for the same key, all have been
\* admitted and none has lost its connection.
C3_Witness ==
    /\ \A c \in Clients : hpc[c] = "done" /\ hkey[c] = "abc" /\ ~chan[c].connClosed
    /\ hub["abc"] # Nil
    /\ ClientCount(hub["abc"]) = NumClients

\* C4: per key at most one room is registered at a time (a later room for
\* the key exists only once the watcher of the earlier one has removed its
\* entry), the entry of a key is a room created for it whose watcher has
\* not run, and two lookups of a key return different rooms only if the
\* entry of the earlier room was removed in between.
C4_OneRoomPerKey ==
    /\ \A k \in Keys :
        /\ Cardinality({r \in RoomsOf(k) : watcher[r] = "waiting"}) <= 1
        /\ hub[k] # Nil => hub[k] \in RoomsOf(k) /\ watcher[hub[k]] = "waiting"
    /\ \A c, d \in Clients :
        (/\ hkey[c] = hkey[d]
         /\ room[c] # Nil /\ room[d] # Nil
         /\ watcher[room[c]] = "waiting" /\ watcher[room[d]] = "waiting")
        => room[c] = room[d]

\* Two first-time lookups of a key ran concurrently: both found no entry
\* under the read lock, one created the room, the other met it in the
\* double check and created none.
C4_Witness ==
    \E c, d \in Clients :
        /\ how[c] = "created"
        /\ how[d] = "recheck"
        /\ room[c] = room[d]
        /\ nRooms = 1

\* Client c is in the client set of its room.
Member(c) == room[c] # Nil /\ c \in clients[room[c]]

\* A step of the event loop of room r that takes a message off
\* Room.message (no other step shortens that channel).
Broadcasts(r) == Len(message[r]) > 0 /\ message'[r] = Tail(message[r])

\* C2: every message handed to the event loop carries the server's
\* timestamp, and the step that processes a broadcast appends it once to
\* the queue of every member other than the origin whose queue is not
\* full, and leaves the queue of the origin as it was.
C2_BroadcastDelivers ==
    [][\A r \in Rooms : Broadcasts(r) =>
        LET msg == Head(message[r]) IN
        /\ msg.Timestamp = ServerTime
        /\ \A c \in clients[r] :
            IF c = msg.From
            THEN chan'[c].send = chan[c].send
            ELSE Len(chan[c].send) < SendCap =>
                    chan'[c].send = Append(chan[c].send, msg)]_vars

\* C5: a room whose lifecycle context is cancelled (its last client was
\* evicted) eventually has run its teardown, left its event loop and lost
\* its entry in the Hub.
C5_TeardownCompletes ==
    \A r \in Rooms :
        cancelled[r] ~> (cleaned[r] /\ loop[r] = "exited" /\ watcher[r] = "done")

\* C6: once the context of a room is cancelled no client is inserted into
\* its client set and no loops of a client of that room are started.
C6_NoAdmissionAfterCancel ==
    [][\A r \in Rooms : cancelled[r] =>
        /\ clients'[r] \subseteq clients[r]
        /\ \A c \in Clients :
            room[c] = r /\ rpc[c] = "none" => rpc'[c] = "none" /\ spc'[c] = "none"]_vars

\* C7: a lookup that starts once the teardown of the room of its key has
\* completed never returns that room: the read-locked lookup of getRoom
\* returns no room whose event loop has exited.
C7_LookupAfterTeardown ==
    [][\A c \in Clients :
        hpc[c] = "idle" /\ room'[c] # Nil => loop[room'[c]] # "exited"]_vars

\* C8: the step that processes a broadcast while the queue of a member is
\* full closes the connection of that member, still appends the message
\* to the queue of every other member that has room, and leaves the event
\* loop running; and a member so dropped is eventually out of the client
\* set with its connection closed.
C8_SaturatedEvicted ==
    /\ [][\A r \in Rooms : Broadcasts(r) =>
            LET msg == Head(message[r])
                targets == clients[r] \ {msg.From}
            IN (\E c \in targets : Len(chan[c].send) = SendCap) =>
                /\ \A c \in targets :
                    IF Len(chan[c].send) = SendCap
                    THEN chan'[c].connClosed
                    ELSE chan'[c].send = Append(chan[c].send, msg)
                /\ loop'[r] = "running"
                /\ panic' = NoPanic]_vars
    /\ \A c \in Clients :
        (chan[c].dropped /\ Member(c)) ~> (~Member(c) /\ chan[c].connClosed)

\* C9: no close request, whatever its origin, closes an outbound queue
\* that is closed already.
C9_NoDoubleClose == panic # CloseOfClosed

\* C10: the transport of a client is closed at most once, and once a close
\* request has completed the outbound queue is closed too.
C10_ExactlyOneClose ==
    \A c \in Clients :
        /\ chan[c].connCloses <= 1
        /\ chan[c].connCloses >= 1 => chan[c].sendClosed

\* C11: a request without a key, or whose upgrade fails, is answered with
\* an error and has no effect on any room: the step that handles it
\* creates no room, returns no room to the handler, leaves the Hub, every
\* client set, every channel and every client loop as they were, and the
\* handler never holds a room or becomes a member afterwards.
C11_EmptyKeyRejected ==
    /\ [][\A c \in Clients :
            (/\ hpc[c] = "idle" /\ hpc'[c] # "idle"
             /\ (hkey'[c] = "" \/ upgrade'[c] = "failed"))
            => /\ hpc'[c] = "rejected"
               /\ room'[c] = Nil
               /\ UNCHANGED <<hubVars, roomVars, chan, rpc, spc>>]_vars
    /\ [](\A c \in Clients :
            (hpc[c] # "idle" /\ (hkey[c] = "" \/ upgrade[c] = "failed"))
            => /\ hpc[c] = "rejected"
               /\ room[c] = Nil
               /\ \A r \in Rooms : c \notin clients[r]
               /\ rpc[c] = "none" /\ spc[c] = "none")

\* A room has a member, and a later request for its key whose upgrade
\* failed was turned away.
C11_Witness ==
    \E c, d \in Clients :
        /\ hpc[c] = "done" /\ room[c] # Nil /\ clients[room[c]] = {c}
        /\ hpc[d] = "rejected" /\ upgrade[d] = "failed" /\ hkey[d] = hkey[c]

\* The command set the protocol description recognizes.
RecognizedKinds ==
    {CommandPlay, CommandPause, CommandSeek, CommandSync, CommandError,
     CommandVideoChange}

\* The inbound loop of client c is reading and can forward a frame.
Reading(c) ==
    /\ panic = NoPanic
    /\ rpc[c] = "read"
    /\ ~chan[c].connClosed
    /\ nFrames < MaxFrames

\* C12: whenever the inbound loop of a client reads a frame, a well-formed
\* frame whose kind is play, pause, seek, sync, error or change-video is
\* stamped and goes to the submission to Room.message, and any other
\* frame is read and changes nothing (the loop goes on reading, nothing is
\* forwarded, nobody is evicted).
C12_RecognizedForwarded ==
    \A c \in Clients : \A f \in AllFrames :
        Reading(c) =>
            IF f.wellFormed /\ f.Type \in RecognizedKinds
            THEN ENABLED (/\ RecvFrame(c, f)
                          /\ rpc'[c] = "submit"
                          /\ pending'[c] = Stamp(c, f))
            ELSE /\ ENABLED RecvFrame(c, f)
                 /\ ~ENABLED (RecvFrame(c, f) /\ vars' # vars)

\* A loop of client c has ended (a read failed or its deadline passed, a
\* write or a ping failed, or the outbound queue was found closed).
Ended(c) ==
    \/ rpc[c] \in {"unreg", "closing", "done"}
    \/ spc[c] \in {"closing", "done"}

\* C13: a transport error on the connection of a member ends the loop it
\* hits for good and is followed by the eviction of that member (it is
\* eventually out of the client set), and the step in which the loop ends
\* changes neither the client set nor the queue or connection of any
\* other client.
C13_ErrorEvicts ==
    /\ [][\A c \in Clients :
            /\ rpc[c] \in {"unreg", "closing", "done"}
                => rpc'[c] \in {"unreg", "closing", "done"}
            /\ spc[c] \in {"closing", "done"} => spc'[c] \in {"closing", "done"}
            /\ (~Ended(c) /\ Ended(c)') =>
                /\ clients' = clients
                /\ \A d \in Clients \ {c} : chan'[d] = chan[d]]_vars
    /\ \A c \in Clients : (Member(c) /\ Ended(c)) ~> ~Member(c)

\* C14: no inbound loop is ever suspended in a send into its room: neither
\* in the submission of a message with Room.message full, nor in the
\* eviction request with Room.unregister full.  (The sends of the event
\* loop into a client's queue are steps of RunMessage, which never waits.)
C14_NoBlockingSend ==
    \A c \in Clients :
        /\ ~(rpc[c] = "submit" /\ Len(message[room[c]]) >= MessageCap)
        /\ ~(rpc[c] = "unreg" /\ Len(unregister[room[c]]) >= UnregisterCap)

C16_EvictEffect ==
    [][\A r \in Rooms :
        (Len(unregister[r]) > 0 /\ Len(unregister'[r]) < Len(unregister[r])) =>
            LET c == Head(unregister[r]) IN
            IF c \in clients[r]
            THEN /\ clients'[r] = clients[r] \ {c}
                 /\ chan'[c].sendClosed
                 /\ chan'[c].connClosed
                 /\ cancelled'[r] = (cancelled[r] \/ clients'[r] = {})
            ELSE UNCHANGED <<clients, chan, cancelled, cleaned, loop>>]_vars

\* C17: the teardown of a cancelled room (the step in which the guard
\* Room.cleaned is taken) closes the queue and the connection of every
\* client still in the client set, empties the set and ends the event
\* loop; a room whose loop has ended has ClientCount() = 0 and stays so
\* for ever; and its entry in the Hub is then removed.
C17_TeardownTerminal ==
    /\ [][\A r \in Rooms :
            /\ (~cleaned[r] /\ cleaned'[r]) =>
                /\ cancelled[r]
                /\ \A c \in clients[r] : chan'[c].sendClosed /\ chan'[c].connClosed
                /\ clients'[r] = {}
                /\ loop'[r] = "exited"
            /\ loop[r] = "exited" =>
                loop'[r] = "exited" /\ clients'[r] = {} /\ cleaned'[r]]_vars
    /\ [](\A r \in Rooms :
            loop[r] = "exited" => cleaned[r] /\ cancelled[r] /\ ClientCount(r) = 0)
    /\ \A r \in Rooms : cleaned[r] ~> (loop[r] = "exited" /\ hub[rkey[r]] # r)

\* C18: for every room the body of the teardown (closing the remaining
\* clients, clearing the client set) runs at most once, and once it has
\* run the room's event loop takes no request and changes no client set
\* again, however often the cancellation is triggered or observed.
C18_TeardownOnce ==
    /\ [](\A r \in Rooms : cleanups[r] <= 1 /\ (cleaned[r] <=> cleanups[r] = 1))
    /\ [][\A r \in Rooms : cleaned[r] =>
            /\ clients'[r] = clients[r]
            /\ cleanups'[r] = cleanups[r]
            /\ Len(message'[r]) >= Len(message[r])
            /\ Len(unregister'[r]) >= Len(unregister[r])]_vars

\* The cancellation of a room that had two clients was observed by its
\* event loop, which ran the teardown and returned, and by its watcher.
C18_Witness ==
    \E r \in Rooms :
        /\ cleanups[r] = 1
        /\ loop[r] = "exited"
        /\ watcher[r] = "done"
        /\ \A c \in Clients : room[c] = r /\ hpc[c] = "done"

\* C19: a message leaves the outbound queue of a client only by the
\* receive of that client's outbound loop (the step writes it, or fails to
\* write it and ends the loop; it is no close request), and a message
\* enters the queue only by the event loop of the client's room
\* processing the broadcast at the head of Room.message.
C19_SingleConsumer ==
    [][\A c \in Clients :
        /\ Len(chan'[c].send) < Len(chan[c].send) =>
            /\ spc[c] = "loop"
            /\ chan'[c].connCloses = chan[c].connCloses
            /\ chan'[c].connClosed = chan[c].connClosed
            /\ spc'[c] = "closing" \/ ~chan[c].connClosed
        /\ Len(chan'[c].send) > Len(chan[c].send) =>
            \E r \in Rooms :
                /\ c \in clients[r]
                /\ Len(message[r]) > 0
                /\ message'[r] = Tail(message[r])
                /\ chan'[c].send = Append(chan[c].send, Head(message[r]))]_vars

\* C20: the event loop never sends a broadcast on an outbound queue that
\* is closed already: no step of sendMessage meets a target, still in the
\* client set, whose queue one of its own loops has closed.
C20_NoSendOnClosed == panic # SendOnClosed

\* C21: a handler that holds a room from getRoom and is sending its client
\* on Room.register eventually has the send received by the event loop
\* (unless a panic ended the process first): it never waits for ever.
C21_AdmissionCompletes ==
    \A c \in Clients :
        hpc[c] = "register" ~> (hpc[c] = "done" \/ panic # NoPanic)

\* C22: the step in which the watcher of a room deletes its key from the
\* Hub finds, under that key, the room the watcher was started for: never
\* no entry, never a room created later for the same key.
C22_WatcherDeletesOwn ==
    [][\A r \in Rooms :
        (watcher[r] = "waiting" /\ watcher'[r] = "done")
        => hub[rkey[r]] = r /\ hub'[rkey[r]] = Nil]_vars

\* Two rooms were created for the same key one after the other: the
\* watcher of the first has deleted its entry and the Hub holds the second.
C22_Witness ==
    /\ nRooms = 2
    /\ rkey[1] = rkey[2]
    /\ watcher[1] = "done"
    /\ watcher[2] = "waiting"
    /\ hub[rkey[2]] = 2

\* C23: while a client is in the client set with its connection open, its
\* outbound queue is a first-in first-out queue of the broadcasts the
\* event loop processed: a broadcast enters at the end, and a message
\* leaves only from the front and only by the receive of the client's
\* outbound loop, which writes it to the transport (or fails to).
C23_OrderedLossless ==
    [][\A c \in Clients :
        (Member(c) /\ ~chan[c].connClosed) =>
            /\ Len(chan'[c].send) > Len(chan[c].send) =>
                /\ Len(message[room[c]]) > 0
                /\ chan'[c].send = Append(chan[c].send, Head(message[room[c]]))
            /\ Len(chan'[c].send) = Len(chan[c].send) => chan'[c].send = chan[c].send
            /\ Len(chan'[c].send) < Len(chan[c].send) =>
                /\ chan'[c].send = Tail(chan[c].send)
                /\ spc[c] = "loop"
                /\ spc'[c] \in {"loop", "closing"}
                /\ ~chan'[c].connClosed]_vars

\* C24: once the event loop of a room has returned, every client that was
\* admitted to the room eventually has its inbound loop and its outbound
\* loop ended (unless a panic ended the process first): none stays in a
\* send to Room.unregister or Room.message for ever.
C24_LoopsTerminate ==
    \A r \in Rooms : \A c \in Clients :
        (loop[r] = "exited" /\ room[c] = r /\ rpc[c] # "none")
        ~> ((rpc[c] = "done" /\ spc[c] = "done") \/ panic # NoPanic)

====
